---- MODULE Spec2Model ----
(***************************************************************************)
(* Model of pysal/core/IOPlugins/pyShpIO.py: PurePyShpWrapper, the         *)
(* sequential shapefile session (cursor pos, first-write type lock, record *)
(* encoder __writer, record decoder _read, read(n), close).                *)
(*                                                                         *)
(* Python values are modelled as follows.                                  *)
(*  - a shape (cg.Point, cg.Chain, cg.Polygon) is a record                 *)
(*    [variant, loc, attrs, Z, M, parts, holes]; None is NoneShape;        *)
(*  - a shapefile record (a Python dict) is a record with a field `keys`   *)
(*    holding the keys that are present; reading an absent key is a        *)
(*    KeyError;                                                            *)
(*  - an exception leaving a method is recorded in `err`.                  *)
(* The bounding box fields of a record (lines 129-132) come from           *)
(* shape.bounding_box and are read by no operation of this file: they are  *)
(* left out of the record.                                                 *)
(***************************************************************************)
EXTENDS Integers, Sequences, FiniteSets, TLC

\* ------------------------------------------------------------------ bounds
\* Longest record stream of a read session, and most records a write
\* session appends.
MaxRecs == 2
\* Largest n of read(n) with n > 0.
MaxN == 3

\* ------------------------------------------------------------ sequences
RECURSIVE Flatten(_)
\* sum(all_parts, []) : concatenation of the parts in order
Flatten(ss) == IF ss = <<>> THEN <<>> ELSE Head(ss) \o Flatten(Tail(ss))

\* seq[::-1]
Reverse(s) == [i \in 1..Len(s) |-> s[Len(s) + 1 - i]]

\* seq[a:b] for 0-based a, b >= 0 (Python clamps both to len(seq))
Slice(s, a, b) ==
    LET hi == IF b < Len(s) THEN b ELSE Len(s)
    IN  IF a >= hi THEN <<>> ELSE SubSeq(s, a + 1, hi)

\* seq[:-1]
ButLast(s) == IF s = <<>> THEN <<>> ELSE SubSeq(s, 1, Len(s) - 1)

\* [x for x in seq if x]: the non-empty lists of seq, in order
Truthy(s) ==
    LET F[i \in 0..Len(s)] ==
            IF i = 0 THEN <<>>
            ELSE IF s[i] # <<>> THEN Append(F[i - 1], s[i]) ELSE F[i - 1]
    IN  F[Len(s)]

\* ---------------------------------------------------------------- shapes
NoneShape ==
    [variant |-> "None", loc |-> <<>>, attrs |-> {}, Z |-> 0, M |-> 0,
     parts |-> <<>>, holes |-> <<>>]

\* cg.Point(loc): a point of len(loc) attributes
Point(loc) ==
    [variant |-> "Point", loc |-> loc, attrs |-> {}, Z |-> 0, M |-> 0,
     parts |-> <<>>, holes |-> <<>>]

\* cg.Chain(parts)
Chain(parts) ==
    [variant |-> "Chain", loc |-> <<>>, attrs |-> {}, Z |-> 0, M |-> 0,
     parts |-> parts, holes |-> <<>>]

\* cg.Polygon(parts, holes): a value holding the shell rings and the hole
\* rings it is given, in order
Polygon(parts, holes) ==
    [variant |-> "Polygon", loc |-> <<>>, attrs |-> {}, Z |-> 0, M |-> 0,
     parts |-> parts, holes |-> holes]

\* signedArea(ring): shoelace sum over consecutive vertex pairs, wrap-around
\* included (twice the area; positive for a counter-clockwise ring, y up)
signedArea2(ring) ==
    LET len == Len(ring)
        nxt(i) == IF i = len THEN 1 ELSE i + 1
        F[i \in 0..len] ==
            IF i = 0 THEN 0
            ELSE F[i - 1] + ring[i][1] * ring[nxt(i)][2]
                          - ring[nxt(i)][1] * ring[i][2]
    IN  F[len]

\* cg.is_clockwise(ring)
is_clockwise(ring) == signedArea2(ring) < 0

\* line 19-20
STRING_TO_TYPE ==
    [t \in {"POLYGON", "POINT", "POINTM", "POINTZ", "ARC", "POLYGONZ"} |->
        CASE t \in {"POLYGON", "POLYGONZ"} -> "Polygon"
          [] t \in {"POINT", "POINTM", "POINTZ"} -> "Point"
          [] OTHER -> "Chain"]

\* line 21-22
TYPE_TO_STRING ==
    [v \in {"Polygon", "Point", "Chain"} |->
        CASE v = "Polygon" -> "POLYGON"
          [] v = "Point" -> "POINT"
          [] OTHER -> "ARC"]

\* --------------------------------------------------------------- records
\* The keys a record may hold. 'Shape Type' holds the type's name here: the
\* numbers of shp_file.SHAPE_TYPES are not part of this file.
EmptyRec ==
    [keys |-> {}, ShapeType |-> "", X |-> 0, Y |-> 0, M |-> 0, Z |-> 0,
     NumParts |-> 0, PartsIndex |-> <<>>, NumPoints |-> 0, Vertices |-> <<>>]

\* line 141-143: partsIndex = [0]; for l in map(len, all_parts)[:-1]: append
PartsIndexOf(all_parts) ==
    LET lens == ButLast([i \in 1..Len(all_parts) |-> Len(all_parts[i])])
        F[i \in 0..Len(lens)] ==
            IF i = 0 THEN <<0>>
            ELSE Append(F[i - 1], F[i - 1][Len(F[i - 1])] + lens[i])
    IN  F[Len(lens)]

\* line 134: holes = [hole[::-1] for hole in shape.holes if hole]
WrittenHoles(shape) ==
    LET kept == Truthy(shape.holes)
    IN  [i \in 1..Len(kept) |-> Reverse(kept[i])]

\* line 118-148 of __writer: the record built for `shape` on a session whose
\* locked type is `type` (reached only past the check of line 115, so type is
\* POINT, ARC or POLYGON)
MakeRec(shape, type) ==
    IF type = "POINT"
    THEN [EmptyRec EXCEPT
            !.keys = {"ShapeType", "X", "Y"}
                     \cup (IF Len(shape.loc) > 2 THEN {"M"} ELSE {})
                     \cup (IF Len(shape.loc) > 3 THEN {"Z"} ELSE {}),
            !.ShapeType = type,
            !.X = shape.loc[1],
            !.Y = shape.loc[2],
            !.M = IF Len(shape.loc) > 2 THEN shape.loc[3] ELSE 0,
            !.Z = IF Len(shape.loc) > 3 THEN shape.loc[4] ELSE 0]
    ELSE LET all_parts == IF type = "POLYGON"
                          THEN shape.parts \o WrittenHoles(shape)
                          ELSE shape.parts
             verts == Flatten(all_parts)
         IN  [EmptyRec EXCEPT
                !.keys = {"ShapeType", "NumParts", "PartsIndex", "NumPoints",
                          "Vertices"},
                !.ShapeType = type,
                !.NumParts = Len(all_parts),
                !.PartsIndex = PartsIndexOf(all_parts),
                !.NumPoints = Len(verts),
                !.Vertices = verts]

\* The check of line 115 made on the tag of line 104-109 instead of the
\* shape's class.
MismatchOnTag(shape, type) ==
    (IF shape.variant = "Point" /\ Len(shape.loc) = 3 THEN "POINTM"
     ELSE IF shape.variant = "Point" /\ Len(shape.loc) = 4 THEN "POINTZ"
     ELSE TYPE_TO_STRING[shape.variant]) # type

\* line 115: the type check of __writer
Mismatch(shape, type) == TYPE_TO_STRING[shape.variant] # type

\* line 104-109 of __firstWrite: the tag the session is locked to
FirstType(shape) ==
    LET t == TYPE_TO_STRING[shape.variant]
    IN  IF t = "POINT" /\ Len(shape.loc) = 4 THEN "POINTZ"
        ELSE IF t = "POINT" /\ Len(shape.loc) = 3 THEN "POINTM"
        ELSE t

\* self.type(vertices) of lines 180, 188, 191, for the list of parts given
Make(selftype, parts) ==
    CASE selftype = "Polygon" -> Polygon(parts, <<>>)
      [] selftype = "Chain" -> Chain(parts)
      [] OTHER -> Point(parts)

\* line 167-170: the vertices split at the part index, the last part running
\* to the end
SplitParts(rec) ==
    [i \in 1..rec.NumParts |->
        Slice(rec.Vertices, rec.PartsIndex[i],
              IF i = Len(rec.PartsIndex) THEN Len(rec.Vertices)
              ELSE rec.PartsIndex[i + 1])]

\* what _read leaves: the exception raised, the shape, the warnings, the branch
Decoded(e, shp, w, b) == [err |-> e, shp |-> shp, warnings |-> w, branch |-> b]

\* line 159-198 of _read: the shape decoded from record `rec` of a stream of
\* declared type `dtype`, self.type being `selftype` and self.pos, already
\* advanced, being `p`. `pysal` is not a name of the module (line 10 is a
\* comment; lines 11-14 bind FileIOBase, shp_file, cg and GeoSeries only), so
\* line 172 raises NameError and lines 173-177 are never run.
Decode(rec, dtype, selftype, p) ==
    IF dtype = "POINT"
    THEN IF {"X", "Y"} \subseteq rec.keys
         THEN Decoded("none", Point(<<rec.X, rec.Y>>), <<>>, "point")
         ELSE Decoded("KeyError", NoneShape, <<>>, "point")
    ELSE IF dtype = "POINTZ"
    THEN IF {"X", "Y", "Z", "M"} \subseteq rec.keys
         THEN Decoded("none",
                      [Point(<<rec.X, rec.Y>>) EXCEPT
                          !.attrs = {"Z", "M"}, !.Z = rec.Z, !.M = rec.M],
                      <<>>, "pointz")
         ELSE Decoded("KeyError", NoneShape, <<>>, "pointz")
    ELSE IF "NumParts" \notin rec.keys
    THEN Decoded("KeyError", NoneShape, <<>>, "parts")
    ELSE IF rec.NumParts > 1
    THEN IF dtype = "POLYGON"
         THEN Decoded("NameError", NoneShape, <<>>, "parts")
         ELSE Decoded("none", Make(selftype, SplitParts(rec)), <<>>, "parts")
    ELSE IF rec.NumParts = 1
    THEN Decoded("none", Make(selftype, <<rec.Vertices>>),
                 IF dtype = "POLYGON" /\ ~is_clockwise(rec.Vertices)
                 THEN <<[kind |-> "fixed", pos |-> p]>> ELSE <<>>,
                 "parts")
    ELSE Decoded("none", Make(selftype, <<<<>>>>),
                 <<[kind |-> "zero parts", pos |-> p]>>, "parts")

\* ---------------------------------------------------------------- inputs
\* Rings and lines over a small integer grid.
CW1 == << <<0, 0>>, <<0, 2>>, <<2, 0>> >>
CW2 == << <<5, 5>>, <<5, 6>>, <<6, 5>>, <<5, 5>> >>
HoleCW == << <<1, 1>>, <<1, 2>>, <<2, 1>> >>
L1 == << <<0, 0>>, <<1, 1>> >>
L2 == << <<2, 2>>, <<3, 3>>, <<4, 4>> >>

\* The shapes a caller writes: points of 2, 3 and 4 attributes, chains,
\* polygons without holes (an empty list of holes, or the list holding one
\* empty hole that line 134 filters), polygons with a hole, and the empty
\* chain and polygon that line 191 itself builds.
Shapes ==
    { Point(<<1, 2>>), Point(<<1, 2, 3>>), Point(<<1, 2, 3, 4>>),
      Chain(<<L1>>), Chain(<<L1, L2>>), Chain(<< <<>> >>),
      Polygon(<<CW1>>, <<>>), Polygon(<<CW2>>, << <<>> >>),
      Polygon(<<CW1>>, <<HoleCW>>), Polygon(<<CW1, CW2>>, <<HoleCW>>),
      Polygon(<< <<>> >>, <<>>) }

PointRec(keys, x, y, m, z) ==
    [EmptyRec EXCEPT !.keys = {"ShapeType"} \cup keys,
                     !.X = x, !.Y = y, !.M = m, !.Z = z]

PartsRec(parts) ==
    [EmptyRec EXCEPT
        !.keys = {"ShapeType", "NumParts", "PartsIndex", "NumPoints", "Vertices"},
        !.NumParts = Len(parts),
        !.PartsIndex = IF parts = <<>> THEN <<>> ELSE PartsIndexOf(parts),
        !.NumPoints = Len(Flatten(parts)),
        !.Vertices = Flatten(parts)]

Tagged(recs, t) == {[r EXCEPT !.ShapeType = t] : r \in recs}

\* The records a stream of declared type t holds when it is opened for
\* reading: well-formed records of that type, among them a record of no part,
\* a one-ring polygon wound counter-clockwise and polygons of several rings.
FileRecords(t) ==
    Tagged(
      CASE t = "POINT" -> {PointRec({"X", "Y"}, 1, 2, 0, 0),
                           PointRec({"X", "Y"}, 3, 4, 0, 0)}
        [] t = "POINTM" -> {PointRec({"X", "Y", "M"}, 1, 2, 3, 0),
                            PointRec({"X", "Y", "M"}, 3, 4, 5, 0)}
        [] t = "POINTZ" -> {PointRec({"X", "Y", "Z", "M"}, 1, 2, 3, 4),
                            PointRec({"X", "Y", "Z", "M"}, 3, 4, 5, 6)}
        [] t = "ARC" -> {PartsRec(<<L1>>), PartsRec(<<L1, L2>>), PartsRec(<<>>)}
        [] t = "POLYGON" -> {PartsRec(<<CW1>>), PartsRec(<<Reverse(CW1)>>),
                             PartsRec(<<CW1, Reverse(HoleCW)>>),
                             PartsRec(<<Reverse(HoleCW), CW1, CW2>>),
                             PartsRec(<<>>)}
        [] OTHER -> {PartsRec(<<CW1>>), PartsRec(<<CW1, Reverse(HoleCW)>>)},
      t)

ReadTypes == DOMAIN STRING_TO_TYPE

Streams(t) ==
    UNION {[1..k -> FileRecords(t)] : k \in 0..MaxRecs}

\* ----------------------------------------------------------------- state
VARIABLES
    mode,       \* "r" or "w"
    pos,        \* self.pos
    dataObj,    \* self.dataObj: "None", or the stream, "open" or "closed"
    dtype,      \* self.dataObj.type()
    type,       \* self.type: a geometry class (read), a type name (write)
    write,      \* the method self.write is bound to
    records,    \* the records of the stream
    op, arg, n, \* the last call, its shape argument, its count argument
    pre,        \* the session before the last call, and the call before it
    err,        \* the exception the last call raised, or "none"
    ret,        \* what the last call returned
    out,        \* the shapes the last call collected (None is NoneShape)
    warnings,   \* the warnings the last call emitted
    branches    \* the branch of _read each record of the last call went through

vars == <<mode, pos, dataObj, dtype, type, write, records, op, arg, n, pre,
          err, ret, out, warnings, branches>>

Pre == [pos |-> pos, records |-> records, type |-> type, dataObj |-> dataObj,
        write |-> write, op |-> op, err |-> err]

\* line 66-74, 90-101: __init__, __open, __create
Init ==
    /\ mode \in {"r", "w"}
    /\ pos = 0
    /\ IF mode = "r"
       THEN /\ dataObj = "open"
            /\ dtype \in ReadTypes
            /\ type = STRING_TO_TYPE[dtype]
            /\ records \in Streams(dtype)
            /\ write = "base"
       ELSE /\ dataObj = "None"
            /\ dtype = ""
            /\ type = ""
            /\ records = <<>>
            /\ write = "firstWrite"
    /\ op = "init" /\ arg = NoneShape /\ n = 0
    /\ pre = [pos |-> 0, records |-> records, type |-> type,
              dataObj |-> dataObj, write |-> write, op |-> "init",
              err |-> "none"]
    /\ err = "none" /\ ret = "None" /\ out = <<>>
    /\ warnings = <<>> /\ branches = <<>>

\* ---------------------------------------------------------------- writes
\* line 114-150, __writer on a session locked to type t whose stream is in
\* state d: the exception raised, the records and the cursor it leaves.
\* add_shape on a closed stream fails (ValueError) before line 150.
WriterEffect(shape, t, d) ==
    IF Mismatch(shape, t)
    THEN [err |-> "TypeError", records |-> records, pos |-> pos]
    ELSE IF d = "closed"
    THEN [err |-> "ValueError", records |-> records, pos |-> pos]
    ELSE [err |-> "none", records |-> Append(records, MakeRec(shape, t)),
          pos |-> pos + 1]

\* line 103-112: __firstWrite, the first write() of a write session
FirstWrite ==
    /\ mode = "w" /\ write = "firstWrite"
    /\ \E shape \in Shapes :
        LET t == FirstType(shape)
            w == WriterEffect(shape, t, "open")
        IN  /\ type' = t
            /\ dataObj' = "open"
            /\ dtype' = t
            /\ write' = "writer"
            /\ records' = w.records
            /\ pos' = w.pos
            /\ err' = w.err
            /\ arg' = shape
    /\ op' = "write" /\ n' = 0 /\ pre' = Pre
    /\ ret' = IF err' = "none" THEN "None" ELSE "raise"
    /\ out' = <<>> /\ warnings' = <<>> /\ branches' = <<>>
    /\ UNCHANGED mode

\* line 114-150: __writer, every later write()
Writer ==
    /\ mode = "w" /\ write = "writer"
    /\ Len(records) < MaxRecs
    /\ \E shape \in Shapes :
        LET w == WriterEffect(shape, type, dataObj)
        IN  /\ records' = w.records
            /\ pos' = w.pos
            /\ err' = w.err
            /\ arg' = shape
    /\ op' = "write" /\ n' = 0 /\ pre' = Pre
    /\ ret' = IF err' = "none" THEN "None" ELSE "raise"
    /\ out' = <<>> /\ warnings' = <<>> /\ branches' = <<>>
    /\ UNCHANGED <<mode, dataObj, dtype, type, write>>

\* ----------------------------------------------------------------- reads
\* _read with the warning's position taken before line 158 advances pos.
ReadAtWarnBefore(p) ==
    IF dataObj = "closed"
    THEN [pos |-> p, end |-> FALSE] @@ Decoded("ValueError", NoneShape, <<>>, "-")
    ELSE IF p >= Len(records)
    THEN [pos |-> p, end |-> TRUE] @@ Decoded("none", NoneShape, <<>>, "-")
    ELSE [pos |-> p + 1, end |-> FALSE]
         @@ Decode(records[p + 1], dtype, type, p)

\* line 153-198, _read at cursor p: get_shape(p) fails on a closed stream, is
\* out of range (IndexError, so None is returned and pos is left) past the
\* last record, and otherwise pos is advanced and the record decoded.
ReadAt(p) ==
    IF dataObj = "closed"
    THEN [pos |-> p, end |-> FALSE] @@ Decoded("ValueError", NoneShape, <<>>, "-")
    ELSE IF p >= Len(records)
    THEN [pos |-> p, end |-> TRUE] @@ Decoded("none", NoneShape, <<>>, "-")
    ELSE [pos |-> p + 1, end |-> FALSE]
         @@ Decode(records[p + 1], dtype, type, p + 1)

Acc(p, e, o, w, b) ==
    [pos |-> p, err |-> e, out |-> o, warnings |-> w, branches |-> b]

Step(a, r, keep) ==
    Acc(r.pos, r.err, IF keep THEN Append(a.out, r.shp) ELSE a.out,
        a.warnings \o r.warnings,
        IF r.branch = "-" THEN a.branches ELSE Append(a.branches, r.branch))

RECURSIVE ReadAllLoop(_)
\* line 210-215: while 1: res = self._read(); append res until it is falsy.
\* A shape is truthy, None is not.
ReadAllLoop(a) ==
    LET r == ReadAt(a.pos)
    IN  IF r.err # "none" THEN Step(a, r, FALSE)
        ELSE IF r.end THEN a
        ELSE ReadAllLoop(Step(a, r, TRUE))

RECURSIVE ReadNLoop(_, _)
\* line 224-228: for i in range(0, n): result.append(self._read()). _read
\* never raises StopIteration: at the end of the data it returns None, which
\* is appended like any result.
ReadNLoop(a, k) ==
    IF k = 0 THEN a
    ELSE LET r == ReadAt(a.pos)
         IN  IF r.err # "none" THEN Step(a, r, FALSE)
             ELSE ReadNLoop(Step(a, r, TRUE), k - 1)

\* line 217, 229: [i.__geo_interface__ for i in result] raises AttributeError
\* when a result is None
GeoInterfaces(a) ==
    IF a.err = "none" /\ \E i \in 1..Len(a.out) : a.out[i] = NoneShape
    THEN [a EXCEPT !.err = "AttributeError"]
    ELSE a

Start == Acc(pos, "none", <<>>, <<>>, <<>>)

Returns(a, opname, count, value) ==
    /\ pos' = a.pos
    /\ err' = a.err
    /\ out' = a.out
    /\ warnings' = a.warnings
    /\ branches' = a.branches
    /\ ret' = IF a.err = "none" THEN value ELSE "raise"
    /\ op' = opname /\ n' = count /\ arg' = NoneShape /\ pre' = Pre
    /\ UNCHANGED <<mode, dataObj, dtype, type, write, records>>

\* line 153-198: one call of _read
Read1 ==
    /\ mode = "r"
    /\ LET r == ReadAt(pos)
           a == Step(Start, r, r.err = "none" /\ ~r.end)
       IN  Returns(a, "_read", 1, IF r.end THEN "None" ELSE "shape")

\* line 208-218: read(n), n < 0
ReadAll ==
    /\ mode = "r"
    /\ LET a == ReadAllLoop(Start)
           b == IF a.err = "none" THEN [a EXCEPT !.pos = 0] ELSE a
       IN  Returns(GeoInterfaces(b), "read", -1, "GeoSeries")

\* line 220-221: read(0)
Read0 ==
    /\ mode = "r"
    /\ Returns(Start, "read", 0, "None")

\* line 222-230: read(n), n > 0
ReadN ==
    /\ mode = "r"
    /\ \E k \in 1..MaxN :
        Returns(GeoInterfaces(ReadNLoop(Start, k)), "read", k, "GeoSeries")

\* ----------------------------------------------------------------- close
\* line 232-234: self.dataObj.close() raises AttributeError while dataObj is
\* None (a write session before its first write); otherwise the stream is
\* closed and line 234 raises NameError, `pysal` not being a name of the
\* module.
Close ==
    /\ IF dataObj = "None"
       THEN /\ err' = "AttributeError"
            /\ UNCHANGED dataObj
       ELSE /\ err' = "NameError"
            /\ dataObj' = "closed"
    /\ op' = "close" /\ n' = 0 /\ arg' = NoneShape /\ pre' = Pre
    /\ ret' = "raise" /\ out' = <<>> /\ warnings' = <<>> /\ branches' = <<>>
    /\ UNCHANGED <<mode, pos, dtype, type, write, records>>

Next == FirstWrite \/ Writer \/ Read1 \/ ReadAll \/ Read0 \/ ReadN \/ Close

Spec == Init /\ [][Next]_vars

\* ---------------------------------------------------------------- claims
IsPrefix(s, t) == Len(s) <= Len(t) /\ SubSeq(t, 1, Len(s)) = s

\* tagFor(geometry): POINT for 2 attributes, POINTM for 3, POINTZ for 4
TagFor(shape) ==
    CASE shape.variant = "Point" ->
            (CASE Len(shape.loc) = 2 -> "POINT"
               [] Len(shape.loc) = 3 -> "POINTM"
               [] OTHER -> "POINTZ")
      [] shape.variant = "Chain" -> "ARC"
      [] OTHER -> "POLYGON"

VariantOf(tag) ==
    CASE tag \in {"POINT", "POINTM", "POINTZ"} -> "Point"
      [] tag = "ARC" -> "Chain"
      [] OTHER -> "Polygon"

\* a write() made after the first successful write of the session
LaterWrite == op = "write" /\ pre.write = "writer" /\ pre.records # <<>>

\* C1. Type lock: after the first successful write, a write of a shape of
\* another variant raises TypeError and leaves pos, the records, the locked
\* type and the stream as they were; a write of a shape of the locked variant
\* on the open session appends one record and advances pos by exactly 1.
TypeLock ==
    LaterWrite =>
        IF arg.variant # VariantOf(pre.type)
        THEN /\ err = "TypeError"
             /\ pos = pre.pos
             /\ records = pre.records
             /\ type = pre.type
             /\ dataObj = pre.dataObj
             /\ write = pre.write
        ELSE pre.dataObj = "open" =>
             /\ err = "none"
             /\ pos = pre.pos + 1
             /\ Len(records) = Len(pre.records) + 1
             /\ IsPrefix(pre.records, records)

\* A write of the locked variant succeeds right after a write of another
\* variant failed on a session that had already written a record.
TypeLockWitness ==
    /\ LaterWrite
    /\ pre.op = "write" /\ pre.err = "TypeError"
    /\ arg.variant = VariantOf(pre.type)
    /\ err = "none" /\ pos = pre.pos + 1

\* C2. First write: on a fresh write session, write(g) locks the session to
\* the tag derived from g, opens the stream for that tag, appends exactly one
\* record for g and leaves pos = 1.
FirstWriteLocks ==
    (op = "write" /\ pre.write = "firstWrite") =>
        /\ err = "none"
        /\ type = TagFor(arg)
        /\ dataObj = "open" /\ dtype = TagFor(arg)
        /\ Len(records) = 1
        /\ pos = 1

\* a read(n) or _read made on an open read session
OpenRead(name) == mode = "r" /\ op = name /\ pre.dataObj = "open"

\* C3. Cursor-reset law: read(n), n < 0, ends with pos = 0; read(n), n > 0,
\* started at p with p + n <= recordCount ends with pos = p + n.
CursorLaw ==
    OpenRead("read") =>
        /\ n < 0 => pos = 0
        /\ (n > 0 /\ pre.pos + n <= Len(records)) => pos = pre.pos + n

\* C4. Partial read at end of data: read(n), n > 0, with fewer than n records
\* remaining raises nothing, returns exactly the remaining shapes in record
\* order, None not among them, and leaves pos = recordCount.
PartialRead ==
    (OpenRead("read") /\ n > 0 /\ n > Len(records) - pre.pos) =>
        /\ err = "none"
        /\ Len(out) = Len(records) - pre.pos
        /\ \A i \in 1..Len(out) :
              /\ out[i] # NoneShape
              /\ out[i] = Decode(records[pre.pos + i], dtype, type,
                                 pre.pos + i).shp
        /\ pos = Len(records)

StrictlyIncreasing(s) == \A i \in 1..(Len(s) - 1) : s[i] < s[i + 1]

\* C5. Part-index invariant: the part index of every polyline or polygon
\* record a write produced starts at 0, is strictly increasing, has NumParts
\* elements and ends below NumPoints.
PartIndexInvariant ==
    mode = "w" =>
        \A i \in 1..Len(records) :
            "PartsIndex" \in records[i].keys =>
                /\ Len(records[i].PartsIndex) = records[i].NumParts
                /\ records[i].PartsIndex # <<>>
                /\ records[i].PartsIndex[1] = 0
                /\ StrictlyIncreasing(records[i].PartsIndex)
                /\ records[i].PartsIndex[Len(records[i].PartsIndex)]
                        < records[i].NumPoints

\* C6. Orientation invariant: in every polygon a read returns, every ring
\* given as a shell is clockwise and every ring given as a hole is
\* counter-clockwise (rings of at least 3 vertices).
OrientationInvariant ==
    (mode = "r" /\ op \in {"read", "_read"} /\ err = "none") =>
        \A i \in 1..Len(out) :
            out[i].variant = "Polygon" =>
                /\ \A j \in 1..Len(out[i].parts) :
                      Len(out[i].parts[j]) >= 3 => is_clockwise(out[i].parts[j])
                /\ \A j \in 1..Len(out[i].holes) :
                      Len(out[i].holes[j]) >= 3 => ~is_clockwise(out[i].holes[j])

\* a ring without its closing vertex
Open(ring) ==
    IF Len(ring) > 1 /\ ring[1] = ring[Len(ring)] THEN ButLast(ring) ELSE ring

Rotate(ring, k) ==
    [i \in 1..Len(ring) |-> ring[((i - 1 + k) % Len(ring)) + 1]]

\* equality of rings up to the starting vertex and closure, not up to reversal
RingEq(r1, r2) ==
    LET a == Open(r1)
        b == Open(r2)
    IN  /\ Len(a) = Len(b)
        /\ (a = <<>> \/ \E k \in 0..(Len(a) - 1) : Rotate(a, k) = b)

RingsEq(s, t) ==
    Len(s) = Len(t) /\ \A i \in 1..Len(s) : RingEq(s[i], t[i])

NonEmpty(rings) ==
    LET F[i \in 0..Len(rings)] ==
            IF i = 0 THEN <<>>
            ELSE IF Len(rings[i]) > 0 THEN Append(F[i - 1], rings[i])
            ELSE F[i - 1]
    IN  F[Len(rings)]

GeomEq(g, h) ==
    /\ g.variant = h.variant
    /\ g.loc = h.loc
    /\ IF g.variant = "Polygon"
       THEN RingsEq(g.parts, h.parts)
            /\ RingsEq(NonEmpty(g.holes), NonEmpty(h.holes))
       ELSE g.parts = h.parts

\* C7. Round-trip: decoding the record that the first write(g) of a session
\* produces, under the tag derived from g, yields a shape equal to g.
RoundTrip ==
    (op = "write" /\ pre.write = "firstWrite") =>
        /\ err = "none"
        /\ Len(records) = 1
        /\ LET d == Decode(records[1], TagFor(arg), VariantOf(TagFor(arg)), 1)
           IN  d.err = "none" /\ GeomEq(d.shp, arg)

\* C8. Point decoding: _read of an in-range record of a stream declared POINT,
\* POINTM or POINTZ yields the point of the record's X and Y, with M and Z
\* exactly when the declared type carries them, advances pos by 1 and does not
\* go through the part-count branch.
PointDecoding ==
    (OpenRead("_read") /\ dtype \in {"POINT", "POINTM", "POINTZ"}
        /\ pre.pos < Len(records)) =>
        /\ err = "none"
        /\ pos = pre.pos + 1
        /\ "parts" \notin {branches[i] : i \in 1..Len(branches)}
        /\ Len(out) = 1
        /\ out[1].variant = "Point"
        /\ out[1].loc = <<records[pre.pos + 1].X, records[pre.pos + 1].Y>>
        /\ ("M" \in out[1].attrs) = (dtype \in {"POINTM", "POINTZ"})
        /\ ("Z" \in out[1].attrs) = (dtype = "POINTZ")

\* C9. Close: close() raises nothing and leaves no open stream, whatever the
\* state of the session and also when called again; a read or a write made
\* after close() raises and leaves pos and the records unchanged.
CloseLaw ==
    /\ op = "close" => (err = "none" /\ dataObj # "open")
    /\ (op \in {"read", "_read", "write"} /\ pre.dataObj = "closed") =>
            (err # "none" /\ pos = pre.pos /\ records = pre.records)

\* _read of an in-range record of an open stream of declared type POLYGON
PolygonRead ==
    OpenRead("_read") /\ dtype = "POLYGON" /\ pre.pos < Len(records)

CcwSingle(rec) == rec.NumParts = 1 /\ ~is_clockwise(rec.Vertices)

\* the outcome of reading a one-ring counter-clockwise polygon record or a
\* record of no part, the warning carrying position p
RepairOutcome(p) ==
    LET rec == records[pre.pos + 1]
    IN  /\ CcwSingle(rec) =>
            /\ err = "none"
            /\ warnings = <<[kind |-> "fixed", pos |-> p]>>
            /\ Len(out) = 1
            /\ out[1].variant = "Polygon"
            /\ Len(out[1].parts) = 1
            /\ out[1].holes = <<>>
        /\ rec.NumParts = 0 =>
            /\ err = "none"
            /\ warnings = <<[kind |-> "zero parts", pos |-> p]>>

====
